---- MODULE Spec2Model ----
(***************************************************************************)
(* Model of the IFTTT filter scripts of dimrod's home lighting:            *)
(*   - the main dispatch filter   (src/ifttt/home_lighting_govee.ts,       *)
(*                                 lines 132-350)                          *)
(*   - the Govee filter           (src/ifttt/home_lighting_govee.ts,       *)
(*                                 lines 1-130)                            *)
(*   - the Wyze plug filter       (src/ifttt/home_lighting_wyze_plug.ts)   *)
(*                                                                         *)
(* A filter is a script the host platform executes once per inbound        *)
(* event.  Its only effects are the calls it makes on the host's steps     *)
(* (skip, setBody, setUrl, setMethod, setAdditionalHeaders); a step on     *)
(* which skip was not called is executed by the host.  A run is modelled   *)
(* as one action that computes the ordered log of those calls, the debug   *)
(* text and the error (if any) that ended the script early.                *)
(*                                                                         *)
(* JavaScript values are tagged records [t |-> tag, v |-> value]:          *)
(*   "absent" the property is missing (reads as undefined)                 *)
(*   "null"   null                                                         *)
(*   "key"    a string used only as a property key or copied verbatim      *)
(*            (device ids), kept as one TLA+ string                        *)
(*   "str"    a string whose characters the code inspects, kept as a       *)
(*            sequence of one-character strings                            *)
(*   "num"    an integer-valued number                                     *)
(*   "num8"   a number given in eighths (v = 4 is 0.5), used for           *)
(*            brightness; eighths and their products with 100 are exact    *)
(*            in IEEE doubles                                              *)
(*   "nan"    NaN                                                          *)
(*   "arr"    an array (sequence of tagged values)                         *)
(*                                                                         *)
(* SpecDash is the lighting tab of the dashboard                           *)
(* (src/http/root/script/home.js with                                      *)
(* services/lumen.js and utils.js): the ON and OFF buttons of the light    *)
(* cards, their click handlers and the answers of the Lumen service.       *)
(***************************************************************************)
EXTENDS Integers, Sequences, FiniteSets, TLC

VARIABLES filter,      \* the filter that ran last: "none", "main", "govee", "wyze"
          jdata,       \* the parsed payload of that run
          calls,       \* ordered log of the calls made on the host's steps
          debug_text,  \* the module-level debug_text at the end of the run
          err,         \* "none", or the error that escaped the script
          upstream,    \* <<e>> when the run was triggered by the web request the
                       \* main filter set up on event e, <<>> otherwise
          tab_at,      \* dashboard: where init_tab_lighting is
          tab_resp,    \* dashboard: the answer init_tab_lighting has the head
                       \* of and awaits the body of ("none" or its status)
          resp,        \* dashboard: the same for the handler of each button
          lights,      \* dashboard: Lumen's light list (lumen.lights), each
                       \* light with its id and the power of its status
          cards,       \* dashboard: the ids of the lights that have a card
          disabled,    \* dashboard: the disabled property of each ON/OFF button
          handler_at,  \* dashboard: where the click handler of each button is
          icon,        \* dashboard: the icon shown on the card of each light
          request      \* dashboard: the payload each handler has sent to Lumen

\* the state of the filter scripts and the state of the dashboard page
filter_vars == <<filter, jdata, calls, debug_text, err, upstream>>

dash_vars == <<tab_at, tab_resp, resp, lights, cards, disabled, handler_at, icon, request>>

vars == <<filter, jdata, calls, debug_text, err, upstream,
          tab_at, tab_resp, resp, lights, cards, disabled, handler_at, icon,
          request>>

-----------------------------------------------------------------------------
(* JavaScript values *)

Absent == [t |-> "absent"]
Null   == [t |-> "null"]
NaN    == [t |-> "nan"]
Key(s) == [t |-> "key", v |-> s]
Str(s) == [t |-> "str", v |-> s]
Num(n) == [t |-> "num", v |-> n]
Num8(k) == [t |-> "num8", v |-> k]
Arr(a) == [t |-> "arr", v |-> a]
Lit(s) == [t |-> "lit", v |-> s]

IsString(x) == x.t \in {"key", "str"}

\* Object.prototype.hasOwnProperty on the parsed payload
hasOwnProperty(x) == x.t # "absent"

\* The property key a value is converted to when it indexes an object
PropertyKey(x) ==
    CASE x.t = "key"    -> x.v
      [] x.t = "absent" -> "undefined"
      [] x.t = "null"   -> "null"
      [] OTHER          -> "?"

\* String.prototype.toLowerCase, on the characters the inputs use
LowerChar(c) ==
    CASE c = "O" -> "o"
      [] c = "N" -> "n"
      [] c = "F" -> "f"
      [] OTHER   -> c

\* the string left as it is
toLowerCase_none(s) == s

toLowerCase(s) == [i \in 1..Len(s) |-> LowerChar(s[i])]

-----------------------------------------------------------------------------
(* The host's steps and the state of a running script *)

Call(step, op, arg) == [step |-> step, op |-> op, arg |-> arg]

\* state of a script when its first statement runs: no call made, debug_text
\* initialised by its declaration, no error thrown
Start(header) == [calls |-> <<>>, debug_text |-> <<<<Lit(header)>>>>, err |-> "none"]

Throw(st, e) == [st EXCEPT !.err = e]

HostCall(st, step, op, arg) ==
    [st EXCEPT !.calls = Append(@, Call(step, op, arg))]

skip(st, step) == HostCall(st, step, "skip", Absent)

\* debug_append assigning the message to debug_text instead of appending it
debug_append_overwrite(st, msg) ==
    LET text == <<Head(st.debug_text), msg>>
    IN  [st EXCEPT !.debug_text = text,
                   !.calls = Append(@, Call("sendAnEmail", "setBody", Arr(text)))]

\* debug_append: a message is the sequence of the pieces concatenated into it
debug_append(st, msg) ==
    LET text == Append(st.debug_text, msg)
    IN  [st EXCEPT !.debug_text = text,
                   !.calls = Append(@, Call("sendAnEmail", "setBody", Arr(text)))]

\* debug_skip tracing the skip after having made it
debug_skip_traced(st) ==
    debug_append(skip(st, "sendAnEmail"), <<Lit("SKIPPING: debug email")>>)

debug_skip(st) == skip(st, "sendAnEmail")

-----------------------------------------------------------------------------
(* JSON and number conversions shared by the main and the Govee filter *)

\* JSON.stringify of one value: NaN becomes null, and so does a hole or NaN
\* inside an array; a missing property stays missing
JSONValue(x) ==
    CASE x.t = "nan" -> Null
      [] x.t = "arr" -> Arr([i \in 1..Len(x.v) |->
                               IF x.v[i].t \in {"nan", "absent"} THEN Null ELSE x.v[i]])
      [] OTHER       -> x

\* JSON.stringify of an object whose properties are the fields of obj
JSONstringify(obj) == [t |-> "json", v |-> [k \in DOMAIN obj |-> JSONValue(obj[k])]]

\* MakerWebhooks.jsonEvent.JsonPayload: the text of the payload as the host
\* received it, of which jd is the parse (the text is kept as it came, it is
\* not the parsed payload written again)
JsonPayload(jd) == [t |-> "text", v |-> jd]

Digits == {"0", "1", "2", "3", "4", "5", "6", "7", "8", "9"}

DigitVal(c) ==
    CASE c = "0" -> 0 [] c = "1" -> 1 [] c = "2" -> 2 [] c = "3" -> 3 [] c = "4" -> 4
      [] c = "5" -> 5 [] c = "6" -> 6 [] c = "7" -> 7 [] c = "8" -> 8 [] c = "9" -> 9

RECURSIVE SplitFrom(_, _, _)
\* String.prototype.split(sep): cur is the piece being read
SplitFrom(s, sep, cur) ==
    IF s = <<>> THEN <<cur>>
    ELSE IF Head(s) = sep THEN <<cur>> \o SplitFrom(Tail(s), sep, <<>>)
    ELSE SplitFrom(Tail(s), sep, Append(cur, Head(s)))

split(s, sep) == SplitFrom(s, sep, <<>>)

RECURSIVE DigitPrefix(_)
\* the longest prefix of s made of decimal digits
DigitPrefix(s) ==
    IF s = <<>> \/ Head(s) \notin Digits THEN <<>>
    ELSE <<Head(s)>> \o DigitPrefix(Tail(s))

RECURSIVE DigitsValue(_, _)
DigitsValue(ds, acc) ==
    IF ds = <<>> THEN acc ELSE DigitsValue(Tail(ds), 10 * acc + DigitVal(Head(ds)))

RECURSIVE TrimLeft(_)
TrimLeft(s) == IF s # <<>> /\ Head(s) = " " THEN TrimLeft(Tail(s)) ELSE s

\* parseInt(s, 10): leading blanks, an optional sign, then the digit prefix;
\* NaN when there is no digit
parseInt(s) ==
    LET t0   == TrimLeft(s)
        neg  == t0 # <<>> /\ Head(t0) = "-"
        t1   == IF t0 # <<>> /\ Head(t0) \in {"-", "+"} THEN Tail(t0) ELSE t0
        ds   == DigitPrefix(t1)
    IN  IF ds = <<>> THEN NaN
        ELSE Num(IF neg THEN 0 - DigitsValue(ds, 0) ELSE DigitsValue(ds, 0))

RECURSIVE Pow10(_)
Pow10(n) == IF n = 0 THEN 1 ELSE 10 * Pow10(n - 1)

\* the number a decimal string denotes: leading blanks, an optional sign,
\* digits, and an optional fraction; NaN when there is no digit.  The value
\* is kept in eighths (the strings of the model denote eighths exactly).
StringToNumber(s) ==
    LET t0   == TrimLeft(s)
        neg  == t0 # <<>> /\ Head(t0) = "-"
        t1   == IF t0 # <<>> /\ Head(t0) \in {"-", "+"} THEN Tail(t0) ELSE t0
        ip   == DigitPrefix(t1)
        rest == SubSeq(t1, Len(ip) + 1, Len(t1))
        fp   == IF rest # <<>> /\ Head(rest) = "." THEN DigitPrefix(Tail(rest)) ELSE <<>>
        mag  == DigitsValue(ip, 0) * 8 + (DigitsValue(fp, 0) * 8) \div Pow10(Len(fp))
    IN  IF ip = <<>> /\ fp = <<>> THEN NaN
        ELSE Num8(IF neg THEN 0 - mag ELSE mag)

\* parseFloat(x): a number is converted to a string and read back
parseFloat(x) ==
    CASE x.t = "num8" -> x
      [] x.t = "str"  -> StringToNumber(x.v)
      [] OTHER        -> NaN

-----------------------------------------------------------------------------
(* The Wyze plug filter: src/ifttt/home_lighting_wyze_plug.ts *)

wyze_debug == FALSE

\* the four skip functions: the trace line each appends and the step it skips
skip_on_fpp1(st)  == skip(debug_append(st, <<Lit("SKIPPING: fpp1.on")>>), "plugTurnOn1")
skip_off_fpp1(st) == skip(debug_append(st, <<Lit("SKIPPING: fpp1.off")>>), "plugTurnOff1")
skip_on_fpp2(st)  == skip(debug_append(st, <<Lit("SKIPPING: fpp2.on")>>), "plugTurnOn2")
skip_off_fpp2(st) == skip(debug_append(st, <<Lit("SKIPPING: fpp2.off")>>), "plugTurnOff2")

\* sfunc(): call the skip function a table entry names
sfunc(st, f) ==
    CASE f = "skip_on_fpp1"  -> skip_on_fpp1(st)
      [] f = "skip_off_fpp1" -> skip_off_fpp1(st)
      [] f = "skip_on_fpp2"  -> skip_on_fpp2(st)
      [] f = "skip_off_fpp2" -> skip_off_fpp2(st)

\* the keys of on_skips and off_skips, in the order for..in enumerates them
skip_keys == <<"plug_front_porch1", "plug_front_porch2", "plug_front_porch_all">>

\* on_skips with each plug listing its own turn-on step
on_skips_own ==
    [plug_front_porch1    |-> <<"skip_on_fpp1">>,
     plug_front_porch2    |-> <<"skip_on_fpp2">>,
     plug_front_porch_all |-> <<>>]

on_skips ==
    [plug_front_porch1    |-> <<"skip_on_fpp2">>,
     plug_front_porch2    |-> <<"skip_on_fpp1">>,
     plug_front_porch_all |-> <<>>]

\* off_skips with the group listing both turn-off steps
off_skips_group ==
    [plug_front_porch1    |-> <<"skip_off_fpp2">>,
     plug_front_porch2    |-> <<"skip_off_fpp1">>,
     plug_front_porch_all |-> <<"skip_off_fpp1", "skip_off_fpp2">>]

off_skips ==
    [plug_front_porch1    |-> <<"skip_off_fpp2">>,
     plug_front_porch2    |-> <<"skip_off_fpp1">>,
     plug_front_porch_all |-> <<>>]

\* the loop over the keys leaving after the first key
AllFuncs_first(table, keys) ==
    IF keys = <<>> THEN <<>> ELSE table[Head(keys)]

RECURSIVE AllFuncs(_, _)
\* for (let key in table) push every function of table[key]
AllFuncs(table, keys) ==
    IF keys = <<>> THEN <<>>
    ELSE table[Head(keys)] \o AllFuncs(table, Tail(keys))

RECURSIVE InvokeSkips(_, _)
\* for (i = 0; i < skips.length; i++) skips[i]()
InvokeSkips(st, skips) ==
    IF skips = <<>> THEN st
    ELSE InvokeSkips(sfunc(st, Head(skips)), Tail(skips))

\* the skip functions to call: all of the opposite action's, then those the
\* table of the requested action lists for the id
WyzeSkips(id, action) ==
    IF action = <<"o", "n">>
    THEN AllFuncs(off_skips, skip_keys) \o on_skips[PropertyKey(id)]
    ELSE AllFuncs(on_skips, skip_keys) \o off_skips[PropertyKey(id)]

\* whether table[id] is undefined, so that reading its length throws
WyzeLookupFails(id, action) ==
    IF action = <<"o", "n">>
    THEN PropertyKey(id) \notin DOMAIN on_skips
    ELSE PropertyKey(id) \notin DOMAIN off_skips

WyzeDebugEnd(st) == IF ~wyze_debug THEN debug_skip(st) ELSE st

\* the whole script, on the parsed payload jd
WyzeFilter(jd) ==
    LET st0 == Start("<h1>Home Lighting Debug (Wyze Plug)</h1>")
    IN  IF jd.action.t # "str"
        THEN Throw(st0, "TypeError: jdata.action.toLowerCase")
        ELSE
        LET id     == jd.id
            action == toLowerCase(jd.action.v)
            st1 == debug_append(st0, <<Lit("Received payload: "), JSONstringify(jd)>>)
            st2 == debug_append(st1, <<Lit("Plug ID: "), id>>)
            st3 == debug_append(st2, <<Lit("Plug Action: "), Str(action)>>)
        IN  IF WyzeLookupFails(id, action)
            THEN Throw(st3, "TypeError: length of undefined")
            ELSE
            LET skips == WyzeSkips(id, action)
                st4 == IF wyze_debug
                       THEN debug_append(st3, <<Lit("Skip functions to invoke:"),
                                                Arr([i \in 1..Len(skips) |-> Lit(skips[i])])>>)
                       ELSE st3
            IN  WyzeDebugEnd(InvokeSkips(st4, skips))

-----------------------------------------------------------------------------
(* The Govee filter: src/ifttt/home_lighting_govee.ts, lines 1-130 *)

govee_debug == FALSE

govee_key_header == Lit("Govee-API-Key: GOVEE_API_KEY_GOES_HERE")

id_map == [strip_staircase |-> [mac |-> "MAC_ADDRESS_GOES_HERE", model |-> "H6160"]]

govee_skip_all(st) ==
    skip(skip(skip(st, "makeWebRequest1"), "makeWebRequest2"), "makeWebRequest3")

\* color[i] for the value the payload gives as color (i counts from 0)
ColorIndex(color, i) ==
    CASE color.t = "arr" /\ i < Len(color.v) -> color.v[i + 1]
      [] color.t = "str" /\ i < Len(color.v) -> Str(<<color.v[i + 1]>>)
      [] OTHER -> Absent

\* bval without the multiplication by 100
bval_no100(brightness) ==
    LET b == IF brightness.t = "str" THEN StringToNumber(brightness.v) ELSE brightness
    IN  CASE b.t = "num8" ->
                 Num(IF b.v >= 0 THEN b.v \div 8 ELSE 0 - ((0 - b.v) \div 8))
          [] b.t = "num" -> Num(b.v)
          [] OTHER -> NaN

\* parseInt("" + (brightness * 100.0)): the integer part of the product; a
\* string operand of * is converted to the number it denotes
bval(brightness) ==
    LET b == IF brightness.t = "str" THEN StringToNumber(brightness.v) ELSE brightness
    IN  CASE b.t = "num8" ->
                 LET p == b.v * 100
                 IN  Num(IF p >= 0 THEN p \div 8 ELSE 0 - ((0 - p) \div 8))
          [] b.t = "num" -> Num(b.v * 100)
          [] OTHER -> NaN

GoveeRequest(device_data, name, value) ==
    JSONstringify([device |-> Lit(device_data.mac),
                   model  |-> Lit(device_data.model),
                   cmd    |-> JSONstringify([name |-> Lit(name), value |-> value])])

\* set the headers and the body of a request step, then trace the payload
GoveeFire(st, step, label, req) ==
    debug_append(
        HostCall(HostCall(st, step, "setAdditionalHeaders", govee_key_header),
                 step, "setBody", req),
        <<Lit(label), req>>)

GoveeKnown(st, jd, action) ==
    LET device_data == id_map[PropertyKey(jd.id)]
        st1 == GoveeFire(st, "makeWebRequest1", "Request 1 Payload: ",
                         GoveeRequest(device_data, "turn", Str(action)))
        st2 == IF hasOwnProperty(jd.color) /\ jd.color.t # "null"
               THEN GoveeFire(st1, "makeWebRequest2", "Request 2 Payload: ",
                        GoveeRequest(device_data, "color",
                            JSONstringify([r |-> ColorIndex(jd.color, 0),
                                           g |-> ColorIndex(jd.color, 1),
                                           b |-> ColorIndex(jd.color, 2)])))
               ELSE skip(st1, "makeWebRequest2")
        st3 == IF hasOwnProperty(jd.brightness) /\ jd.brightness.t # "null"
               THEN GoveeFire(st2, "makeWebRequest3", "Request 3 Payload: ",
                        GoveeRequest(device_data, "brightness", bval(jd.brightness)))
               ELSE skip(st2, "makeWebRequest3")
    IN  st3

GoveeDebugEnd(st) == IF ~govee_debug THEN debug_skip(st) ELSE st

\* the whole script, on the parsed payload jd
GoveeFilter(jd) ==
    LET st0 == debug_append(Start("<h1>Home Lighting Debug (Govee)</h1>"),
                            <<Lit("Received Payload: "), JSONstringify(jd)>>)
    IN  IF hasOwnProperty(jd.id) /\ hasOwnProperty(jd.action)
        THEN IF jd.action.t # "str"
             THEN Throw(st0, "TypeError: jdata.action.toLowerCase")
             ELSE IF PropertyKey(jd.id) \in DOMAIN id_map
                  THEN GoveeDebugEnd(GoveeKnown(st0, jd, toLowerCase(jd.action.v)))
                  ELSE GoveeDebugEnd(govee_skip_all(
                           debug_append(st0, <<Lit("Unknown Govee device: \""), jd.id, Lit("\".")>>)))
        ELSE GoveeDebugEnd(govee_skip_all(
                 debug_append(st0, <<Lit("Payload is missing \"id\" or \"action\".")>>)))

-----------------------------------------------------------------------------
(* The main dispatch filter: src/ifttt/home_lighting_govee.ts, lines 132-350 *)

main_debug == TRUE

lifx_key == "LIFX_API_KEY_GOES_HERE"

\* device_to_api routing the Govee strip to the Wyze plug handler
device_to_api_misrouted ==
    [bulb_front_porch     |-> "lifx_handler",
     plug_front_porch1    |-> "wyze_plug_handler",
     plug_front_porch2    |-> "wyze_plug_handler",
     plug_front_porch_all |-> "wyze_plug_handler",
     strip_staircase      |-> "wyze_plug_handler"]

\* Device-to-API mapping: the handler each id is routed to
device_to_api ==
    [bulb_front_porch     |-> "lifx_handler",
     plug_front_porch1    |-> "wyze_plug_handler",
     plug_front_porch2    |-> "wyze_plug_handler",
     plug_front_porch_all |-> "wyze_plug_handler",
     strip_staircase      |-> "govee_strip_handler"]

lifx_skip(st)        == skip(st, "makeWebRequest1")
wyze_plug_skip(st)   == skip(st, "makeWebRequest2")
govee_strip_skip(st) == skip(st, "makeWebRequest3")

skip_all(st) == govee_strip_skip(wyze_plug_skip(lifx_skip(st)))

\* LifxPower with "on" as the power of an unrecognized action
LifxPower_on(action) ==
    IF action = <<"o", "f", "f">> THEN Lit("off") ELSE Lit("on")

\* the power field of the LIFX payload
LifxPower(action) ==
    IF action = <<"o", "n">> THEN Lit("on")
    ELSE IF action = <<"o", "f", "f">> THEN Lit("off")
    ELSE Lit("off")

\* data["color"][i], i counting from 0 (undefined past the end of the array)
ArrIndex(a, i) == IF i < Len(a.v) THEN a.v[i + 1] ELSE Absent

lifx_handler(st, data) ==
    LET st1 == debug_append(st, <<Lit("The device maps to LIFX.")>>)
        url == <<Lit("https://api.lifx.com/v1/lights/"), Lit("label:"), data.id, Lit("/state")>>
        st2 == debug_append(st1, <<Lit("URL: ")>> \o url)
        headers == <<Lit("Authorization: Bearer "), Lit(lifx_key), Lit("\r\n")>>
        st3 == debug_append(st2, <<Lit("HEADERS: ")>> \o headers)
        color == IF data.color.t # "null"
                 THEN Arr(<<Lit("rgb:"), ArrIndex(data.color, 0), Lit(","),
                            ArrIndex(data.color, 1), Lit(","), ArrIndex(data.color, 2)>>)
                 ELSE Absent
        brightness == IF data.brightness.t # "null" THEN data.brightness ELSE Absent
        payload_str == JSONstringify([power |-> LifxPower(data.action.v),
                                      color |-> color,
                                      brightness |-> brightness])
        st4 == debug_append(st3, <<Lit("PAYLOAD: "), payload_str>>)
        st5 == HostCall(st4, "makeWebRequest1", "setUrl", Arr(url))
        st6 == HostCall(st5, "makeWebRequest1", "setMethod", Lit("PUT"))
        st7 == HostCall(st6, "makeWebRequest1", "setAdditionalHeaders", Arr(headers))
    IN  HostCall(st7, "makeWebRequest1", "setBody", payload_str)

\* wyze_plug_handler skipping the LIFX step as well
wyze_plug_handler_skips(st, data) ==
    lifx_skip(HostCall(debug_append(st, <<Lit("The device maps to a Wyze plug.")>>),
                       "makeWebRequest2", "setBody", JSONstringify(data)))

wyze_plug_handler(st, data) ==
    HostCall(debug_append(st, <<Lit("The device maps to a Wyze plug.")>>),
             "makeWebRequest2", "setBody", JSONstringify(data))

govee_strip_handler(st, data) ==
    LET st1 == debug_append(st, <<Lit("The device maps to Govee.")>>)
        url == Lit("https://maker.ifttt.com/trigger/home_lighting_govee/json/with/key/WEBHOOKS_KEY_GOES_HERE")
        st2 == HostCall(st1, "makeWebRequest3", "setUrl", url)
        st3 == HostCall(st2, "makeWebRequest3", "setBody", JSONstringify(data))
    IN  debug_append(st3, <<Lit("Data sent to Govee: "), JSONstringify(data)>>)

\* handler(api_data), for the handler the mapping names
handler(h, st, data) ==
    CASE h = "lifx_handler"        -> lifx_handler(st, data)
      [] h = "wyze_plug_handler"   -> wyze_plug_handler(st, data)
      [] h = "govee_strip_handler" -> govee_strip_handler(st, data)

\* ParseColor with each component brought into 0..255
ParseColor_clamped(s) ==
    LET color_nums == split(s, ",")
        n(i) == parseInt(color_nums[i])
    IN  Arr([i \in 1..Len(color_nums) |->
                IF n(i).t # "num" THEN n(i)
                ELSE Num(IF n(i).v > 255 THEN 255 ELSE IF n(i).v < 0 THEN 0 ELSE n(i).v)])

\* the color string split by comma, each piece parsed as a base-10 integer
ParseColor(s) ==
    LET color_nums == split(s, ",")
    IN  Arr([i \in 1..Len(color_nums) |-> parseInt(color_nums[i])])

\* ParseBrightness without Math.min(1.0, .)
ParseBrightness_nomin(x) ==
    LET b == parseFloat(x)
    IN  IF b.t = "num8" THEN Num8(IF b.v < 0 THEN 0 ELSE b.v) ELSE NaN

\* ParseBrightness without Math.max(0.0, .)
ParseBrightness_nomax(x) ==
    LET b == parseFloat(x)
    IN  IF b.t = "num8" THEN Num8(IF b.v > 8 THEN 8 ELSE b.v) ELSE NaN

\* parseFloat of the brightness value, then Math.min(1.0, .) and Math.max(0.0, .)
ParseBrightness(x) ==
    LET b == parseFloat(x)
    IN  IF b.t = "num8"
        THEN Num8(IF b.v > 8 THEN 8 ELSE IF b.v < 0 THEN 0 ELSE b.v)
        ELSE NaN

\* the "Received Data" trace lines
MainTrace(st, jd, api_data) ==
    LET st1 == debug_append(st, <<Lit("<h2>Received Data</h2>")>>)
        st2 == debug_append(st1, <<Lit("RAW: "), JsonPayload(jd)>>)
        st3 == debug_append(st2, <<Lit("ID: "), api_data.id>>)
        st4 == debug_append(st3, <<Lit("ACTION: "), api_data.action>>)
        st5 == IF api_data.color.t # "null"
               THEN debug_append(st4, <<Lit("COLOR: "), ArrIndex(api_data.color, 0), Lit("-"),
                                        ArrIndex(api_data.color, 1), Lit("-"),
                                        ArrIndex(api_data.color, 2)>>)
               ELSE debug_append(st4, <<Lit("COLOR: null")>>)
    IN  IF api_data.brightness.t # "null"
        THEN debug_append(st5, <<Lit("BRIGHTNESS: "), api_data.brightness>>)
        ELSE debug_append(st5, <<Lit("BRIGHTNESS: null")>>)

\* the lookup of the handler and its invocation, or skip_all
MainDispatch(st, api_data) ==
    LET st1 == debug_append(st, <<Lit("<h2>API Mapping</h2>")>>)
    IN  IF PropertyKey(api_data.id) \in DOMAIN device_to_api
        THEN handler(device_to_api[PropertyKey(api_data.id)], st1, api_data)
        ELSE skip_all(debug_append(st1, <<Lit("The device isn't in the mapping.")>>))

MainDebugEnd(st) == IF ~main_debug THEN debug_skip(st) ELSE st

\* the whole script, on the parsed payload jd
MainFilter(jd) ==
    LET st0 == Start("<h1>Home Lighting Debug</h1>")
    IN  IF jd.action.t # "str"
        THEN Throw(st0, "TypeError: jdata.action.toLowerCase")
        ELSE IF hasOwnProperty(jd.color) /\ jd.color.t # "str"
        THEN Throw(st0, "TypeError: jdata.color.split")
        ELSE
        LET api_data ==
                [id         |-> jd.id,
                 action     |-> Str(toLowerCase(jd.action.v)),
                 color      |-> IF hasOwnProperty(jd.color)
                                THEN ParseColor(jd.color.v) ELSE Null,
                 brightness |-> IF hasOwnProperty(jd.brightness)
                                THEN ParseBrightness(jd.brightness) ELSE Null]
        IN  MainDebugEnd(MainDispatch(MainTrace(st0, jd, api_data), api_data))

-----------------------------------------------------------------------------
(* Inbound events *)

KnownIds == {"bulb_front_porch", "plug_front_porch1", "plug_front_porch2",
             "plug_front_porch_all", "strip_staircase"}

Ids == {Key(i) : i \in KnownIds \cup {"unknown_device"}} \cup {Absent, Null}

Actions == {Str(<<"o", "n">>), Str(<<"o", "f", "f">>), Str(<<"O", "N">>),
            Str(<<"O", "f", "f">>), Str(<<"t", "o", "g", "g", "l", "e">>),
            Absent, Null, Num(1)}

Colors == {Absent, Null, Str(<<"1", "0", ",", "2", "0", ",", "3", "0">>),
           Str(<<"3", "0", "0", ",", "-", "5", ",", "0">>),
           Arr(<<Num(10), Num(20), Num(30)>>)}

\* brightness numbers range over the eighths from -1/8 to MaxBrightness8/8
MaxBrightness8 == 12

Brightnesses == {Absent, Null, Str(<<"0", ".", "5">>)}
                    \cup {Num8(k) : k \in -1..MaxBrightness8}

Events == [id : Ids, action : Actions, color : Colors, brightness : Brightnesses]

-----------------------------------------------------------------------------
(* The dashboard: src/http/root/script/home.js, services/lumen.js, utils.js *)

\* the lights of the Lumen service
AllLights == {"bulb_front_porch", "plug_front_porch1"}

\* has_color and has_brightness of each light
LightInfo(l) ==
    IF l = "bulb_front_porch"
    THEN [has_color |-> TRUE, has_brightness |-> TRUE]
    ELSE [has_color |-> FALSE, has_brightness |-> FALSE]

\* the ON and OFF buttons: ids "lumenon_" + lid and "lumenoff_" + lid
AllButtons == [kind : {"lumenon", "lumenoff"}, lid : AllLights]

\* the value of the color input turned into "R,G,B", and of the brightness
\* slider divided by 100 (in eighths)
ColorInput == Key("255,0,0")

BrightnessInput == Num8(4)

button_disable(d, btn) == [d EXCEPT ![btn] = TRUE]

button_enable(d, btn) == [d EXCEPT ![btn] = FALSE]

\* the ids of the lights of Lumen's list
LightIds == {l.id : l \in lights}

\* Lumen.search_light: the light of the list with the id, or null
search_light(lid) == IF lid \in LightIds THEN Key(lid) ELSE Null

\* the payload Lumen.turn_on posts to /toggle
turn_on(lid, color, brightness) ==
    [id |-> Key(lid), action |-> Str(<<"o", "n">>),
     color |-> IF color.t # "null" THEN color ELSE Absent,
     brightness |-> IF brightness.t # "null" THEN brightness ELSE Absent]

\* the payload Lumen.turn_off posts to /toggle
turn_off(lid) ==
    [id |-> Key(lid), action |-> Str(<<"o", "f", "f">>),
     color |-> Absent, brightness |-> Absent]

\* the lists of lights Lumen may report: each light at most once
LightLists ==
    {L \in SUBSET [id : AllLights, power : BOOLEAN] :
        \A a, b \in L : a.id = b.id => a = b}

\* the page when window.onload calls init_tab_lighting
DashInit ==
    /\ tab_at = "start"
    /\ tab_resp = "none"
    /\ resp = [b \in AllButtons |-> "none"]
    /\ lights = {}
    /\ cards = {}
    /\ disabled = [b \in AllButtons |-> FALSE]
    /\ handler_at = [b \in AllButtons |-> "idle"]
    /\ icon = [l \in AllLights |-> "off"]
    /\ request = [b \in AllButtons |-> Null]

\* init_tab_lighting up to its first await: when the lumen service is not
\* among services_me it returns, otherwise auth_check sends its request
init_tab_lighting ==
    /\ tab_at = "start"
    /\ \E found \in BOOLEAN :
        tab_at' = IF found THEN "auth_check" ELSE "nolumen"
    /\ UNCHANGED <<tab_resp, resp>>
    /\ UNCHANGED <<lights, cards, disabled, handler_at, icon, request>>
    /\ UNCHANGED filter_vars

\* the status of an answer whose head has arrived
Statuses == {"200", "500"}

\* fetch settles for auth_check, which resumes after "await send_request".
\* When fetch failed resp is null: auth_check returns success false, the
\* "Not Authenticated" card is made and init_tab_lighting returns.  Otherwise
\* the head of the answer is there and auth_check waits for resp.text().
auth_check_send_request ==
    /\ tab_at = "auth_check" /\ tab_resp = "none"
    /\ \E fetched \in BOOLEAN : \E status \in Statuses :
        IF fetched
        THEN tab_resp' = status /\ UNCHANGED tab_at
        ELSE tab_at' = "noauth" /\ UNCHANGED tab_resp
    /\ UNCHANGED resp
    /\ UNCHANGED <<lights, cards, disabled, handler_at, icon, request>>
    /\ UNCHANGED filter_vars

\* the text of the answer is there and auth_check returns what it parses to
\* (the status is not looked at).  Without success the "Not Authenticated"
\* card is made and init_tab_lighting returns; a text that is no JSON makes
\* auth_check throw; with success the Lumen object is made (lights = []) and
\* get_lights sends its request.
auth_check ==
    /\ tab_at = "auth_check" /\ tab_resp # "none"
    /\ \E result \in {"success", "failure", "throws"} :
        tab_at' = CASE result = "success" -> "get_lights"
                    [] result = "failure" -> "noauth"
                    [] result = "throws"  -> "rejected"
    /\ tab_resp' = "none"
    /\ UNCHANGED resp
    /\ UNCHANGED <<lights, cards, disabled, handler_at, icon, request>>
    /\ UNCHANGED filter_vars

\* fetch settles for GET /lights and get_lights resumes after
\* "await send_request": a failed fetch and a status other than 200 make it
\* throw, with status 200 it waits for resp.json()
get_lights_send_request ==
    /\ tab_at = "get_lights" /\ tab_resp = "none"
    /\ \E fetched \in BOOLEAN : \E status \in Statuses :
        IF fetched /\ status = "200"
        THEN tab_resp' = status /\ UNCHANGED tab_at
        ELSE tab_at' = "rejected" /\ UNCHANGED tab_resp
    /\ UNCHANGED resp
    /\ UNCHANGED <<lights, cards, disabled, handler_at, icon, request>>
    /\ UNCHANGED filter_vars

\* the body of the answer to GET /lights is there: get_lights throws without
\* success, otherwise it stores the payload in this.lights and returns it
get_lights ==
    /\ tab_at = "get_lights" /\ tab_resp # "none"
    /\ \E success \in BOOLEAN : \E L \in LightLists :
        IF success
        THEN lights' = L /\ tab_at' = "cards"
        ELSE UNCHANGED lights /\ tab_at' = "rejected"
    /\ tab_resp' = "none"
    /\ UNCHANGED resp
    /\ UNCHANGED <<cards, disabled, handler_at, icon, request>>
    /\ UNCHANGED filter_vars

\* init_tab_lighting after get_lights has returned: the "No Lights" card for
\* an empty list, otherwise a card with an icon, an ON and an OFF button for
\* each light.  lumen_icon_off_class and lumen_icon_on_class are declared in
\* none of the scripts; when the page does not declare them either, reading
\* the first throws a ReferenceError before any card is added.
init_tab_lighting_cards ==
    /\ tab_at = "cards"
    /\ IF lights = {}
       THEN tab_at' = "done" /\ UNCHANGED <<cards, icon>>
       ELSE \E declared \in BOOLEAN :
               IF declared
               THEN /\ cards' = LightIds
                    /\ icon' = [l \in AllLights |->
                                   IF \E x \in lights : x.id = l /\ x.power
                                   THEN "on" ELSE "off"]
                    /\ tab_at' = "done"
               ELSE tab_at' = "rejected" /\ UNCHANGED <<cards, icon>>
    /\ UNCHANGED <<tab_resp, resp>>
    /\ UNCHANGED <<lights, disabled, handler_at, request>>
    /\ UNCHANGED filter_vars

\* click on an ON button that is not disabled: the handler up to its await
light_turn_on ==
    \E btn \in AllButtons :
        /\ btn.kind = "lumenon" /\ btn.lid \in cards
        /\ ~disabled[btn] /\ handler_at[btn] # "await"
        /\ disabled' = button_disable(disabled, btn)
        /\ IF search_light(btn.lid).t = "null"
           THEN /\ handler_at' = [handler_at EXCEPT ![btn] = "returned"]
                /\ UNCHANGED request
           ELSE LET color == IF LightInfo(btn.lid).has_color THEN ColorInput ELSE Null
                    brightness == IF LightInfo(btn.lid).has_brightness
                                  THEN BrightnessInput ELSE Null
                IN  /\ request' = [request EXCEPT ![btn] =
                                       JSONstringify(turn_on(btn.lid, color, brightness))]
                    /\ handler_at' = [handler_at EXCEPT ![btn] = "await"]
        /\ UNCHANGED <<tab_at, tab_resp, resp, lights, cards, icon>>
        /\ UNCHANGED filter_vars

\* click on an OFF button that is not disabled: the handler up to its await
light_turn_off ==
    \E btn \in AllButtons :
        /\ btn.kind = "lumenoff" /\ btn.lid \in cards
        /\ ~disabled[btn] /\ handler_at[btn] # "await"
        /\ disabled' = button_disable(disabled, btn)
        /\ IF search_light(btn.lid).t = "null"
           THEN /\ handler_at' = [handler_at EXCEPT ![btn] = "returned"]
                /\ UNCHANGED request
           ELSE /\ request' = [request EXCEPT ![btn] = JSONstringify(turn_off(btn.lid))]
                /\ handler_at' = [handler_at EXCEPT ![btn] = "await"]
        /\ UNCHANGED <<tab_at, tab_resp, resp, lights, cards, icon>>
        /\ UNCHANGED filter_vars

\* fetch settles for the POST /toggle of a handler and Lumen.turn_on or
\* turn_off resumes after "await send_request".  A failed fetch makes it
\* throw and the handler ends there, rejected; otherwise the head of the
\* answer is there, whatever its status, and it waits for resp.json().
toggle_send_request ==
    \E btn \in AllButtons : \E fetched \in BOOLEAN : \E status \in Statuses :
        /\ handler_at[btn] = "await" /\ resp[btn] = "none"
        /\ IF fetched
           THEN /\ resp' = [resp EXCEPT ![btn] = status]
                /\ UNCHANGED <<handler_at, request>>
           ELSE /\ handler_at' = [handler_at EXCEPT ![btn] = "rejected"]
                /\ request' = [request EXCEPT ![btn] = Null]
                /\ UNCHANGED resp
        /\ UNCHANGED <<tab_at, tab_resp, lights, cards, disabled, icon>>
        /\ UNCHANGED filter_vars

\* the body of Lumen's answer to a handler is there.  With status 200 and
\* success the handler goes on after its await: button_enable, then the icon.
\* Otherwise turn_on or turn_off throws and the handler ends there, rejected.
LumenResponds ==
    \E btn \in AllButtons : \E success \in BOOLEAN :
        /\ handler_at[btn] = "await" /\ resp[btn] # "none"
        /\ request' = [request EXCEPT ![btn] = Null]
        /\ resp' = [resp EXCEPT ![btn] = "none"]
        /\ IF resp[btn] = "200" /\ success
           THEN /\ disabled' = button_enable(disabled, btn)
                /\ icon' = [icon EXCEPT ![btn.lid] =
                                IF btn.kind = "lumenon" THEN "on" ELSE "off"]
                /\ handler_at' = [handler_at EXCEPT ![btn] = "done"]
           ELSE /\ handler_at' = [handler_at EXCEPT ![btn] = "rejected"]
                /\ UNCHANGED <<disabled, icon>>
        /\ UNCHANGED <<tab_at, tab_resp, lights, cards>>
        /\ UNCHANGED filter_vars

NextDash ==
    \/ init_tab_lighting \/ auth_check_send_request \/ auth_check
    \/ get_lights_send_request \/ get_lights \/ init_tab_lighting_cards
    \/ light_turn_on \/ light_turn_off \/ toggle_send_request \/ LumenResponds

-----------------------------------------------------------------------------
(* The runs *)

Init ==
    /\ filter = "none"
    /\ jdata = [id |-> Absent, action |-> Absent, color |-> Absent, brightness |-> Absent]
    /\ calls = <<>>
    /\ debug_text = <<>>
    /\ err = "none"
    /\ upstream = <<>>
    /\ DashInit

\* the host triggers the applet of a filter with an event; the script runs
\* from its first statement to its last, or to the statement that throws
RunMain ==
    /\ filter = "none"
    /\ \E jd \in Events :
        LET st == MainFilter(jd)
        IN  /\ filter' = "main"
            /\ jdata' = jd
            /\ calls' = st.calls
            /\ debug_text' = st.debug_text
            /\ err' = st.err
            /\ upstream' = <<>>
            /\ UNCHANGED dash_vars

RunGovee ==
    /\ filter = "none"
    /\ \E jd \in Events :
        LET st == GoveeFilter(jd)
        IN  /\ filter' = "govee"
            /\ jdata' = jd
            /\ calls' = st.calls
            /\ debug_text' = st.debug_text
            /\ err' = st.err
            /\ upstream' = <<>>
            /\ UNCHANGED dash_vars

RunWyze ==
    /\ filter = "none"
    /\ \E jd \in Events :
        LET st == WyzeFilter(jd)
        IN  /\ filter' = "wyze"
            /\ jdata' = jd
            /\ calls' = st.calls
            /\ debug_text' = st.debug_text
            /\ err' = st.err
            /\ upstream' = <<>>
            /\ UNCHANGED dash_vars

\* the host has taken the decisions of the run; nothing of the script's
\* state (debug_text included) is kept for the next run
HostDone ==
    /\ filter # "none"
    /\ filter' = "none"
    /\ jdata' = [id |-> Absent, action |-> Absent, color |-> Absent, brightness |-> Absent]
    /\ calls' = <<>>
    /\ debug_text' = <<>>
    /\ err' = "none"
    /\ upstream' = <<>>
    /\ UNCHANGED dash_vars

\* the argument of the last setBody made on a step in the log cs
BodyOf(cs, step) ==
    LET I == {i \in 1..Len(cs) : cs[i].step = step /\ cs[i].op = "setBody"}
    IN  cs[CHOOSE i \in I : \A j \in I : j <= i].arg

\* whether the host executes a web-request step with a body the run gave it
Sends(cs, step) ==
    /\ \E i \in 1..Len(cs) : cs[i].step = step /\ cs[i].op = "setBody"
    /\ ~\E i \in 1..Len(cs) : cs[i].step = step /\ cs[i].op = "skip"

\* JSON.parse of a body JSON.stringify produced
JSONparse(body) == body.v

\* the host executes makeWebRequest3 of the main applet: the body the main
\* filter set is the payload of the Govee applet's trigger
RunGoveeForwarded ==
    /\ filter = "main"
    /\ err = "none"
    /\ Sends(calls, "makeWebRequest3")
    /\ LET jd == JSONparse(BodyOf(calls, "makeWebRequest3"))
           st == GoveeFilter(jd)
       IN  /\ filter' = "govee"
           /\ jdata' = jd
           /\ calls' = st.calls
           /\ debug_text' = st.debug_text
           /\ err' = st.err
           /\ upstream' = <<jdata>>
           /\ UNCHANGED dash_vars

\* the host executes makeWebRequest2 of the main applet: the body the main
\* filter set is the payload of the Wyze plug applet's trigger
RunWyzeForwarded ==
    /\ filter = "main"
    /\ err = "none"
    /\ Sends(calls, "makeWebRequest2")
    /\ LET jd == JSONparse(BodyOf(calls, "makeWebRequest2"))
           st == WyzeFilter(jd)
       IN  /\ filter' = "wyze"
           /\ jdata' = jd
           /\ calls' = st.calls
           /\ debug_text' = st.debug_text
           /\ err' = st.err
           /\ upstream' = <<jdata>>
           /\ UNCHANGED dash_vars

Next ==
    \/ RunMain \/ RunGovee \/ RunWyze
    \/ RunGoveeForwarded \/ RunWyzeForwarded
    \/ HostDone

Spec == Init /\ [][Next]_vars

\* the script of filter f evaluated on the parsed payload jd
RunScript(f, jd) ==
    CASE f = "main"  -> MainFilter(jd)
      [] f = "govee" -> GoveeFilter(jd)
      [] f = "wyze"  -> WyzeFilter(jd)

\* the dashboard page: clicks on the buttons and answers of Lumen
SpecDash == Init /\ [][NextDash]_vars

-----------------------------------------------------------------------------
(* What the host sees at the end of a run *)

Called(step, op) == \E i \in 1..Len(calls) : calls[i].step = step /\ calls[i].op = op

Skipped(step) == Called(step, "skip")

HasBody(step) == Called(step, "setBody")

WebSteps == {"makeWebRequest1", "makeWebRequest2", "makeWebRequest3"}

PlugSteps == {"plugTurnOn1", "plugTurnOff1", "plugTurnOn2", "plugTurnOff2"}

\* the vendor-facing steps of the filter that ran
VendorSteps == IF filter = "wyze" THEN PlugSteps ELSE WebSteps

\* the steps the host executes: those on which skip was not called
PlugsFired == {s \in PlugSteps : ~Skipped(s)}

AllSuppressed == \A s \in VendorSteps : Skipped(s)

On == <<"o", "n">>

Off == <<"o", "f", "f">>

\* the action of the event after case folding (empty when it is no string)
FoldedAction == IF jdata.action.t = "str" THEN toLowerCase(jdata.action.v) ELSE <<>>

IdIs(i) == jdata.id.t = "key" /\ jdata.id.v = i

IdIn(S) == jdata.id.t = "key" /\ jdata.id.v \in S

IndividualPlugs == {"plug_front_porch1", "plug_front_porch2"}

WyzeIds == IndividualPlugs \cup {"plug_front_porch_all"}

\* the plug step that turns plug id on or off
PlugStep(id, action) ==
    CASE id = "plug_front_porch1" /\ action = On  -> "plugTurnOn1"
      [] id = "plug_front_porch1" /\ action = Off -> "plugTurnOff1"
      [] id = "plug_front_porch2" /\ action = On  -> "plugTurnOn2"
      [] id = "plug_front_porch2" /\ action = Off -> "plugTurnOff2"

OnGroup == {"plugTurnOn1", "plugTurnOn2"}

OffGroup == {"plugTurnOff1", "plugTurnOff2"}

\* the web-request step of the vendor an id of the main filter belongs to
VendorStep(id) ==
    CASE id = "bulb_front_porch" -> "makeWebRequest1"
      [] id \in WyzeIds          -> "makeWebRequest2"
      [] id = "strip_staircase"  -> "makeWebRequest3"

-----------------------------------------------------------------------------
(* Claims *)

\* C1: in the main filter, for every event whose id is in the device map, at
\* the end of the run (the script having reached its last statement) the
\* web-request step of the device's vendor is fired (given a body, not
\* skipped) and skip is called on the steps of the two other vendors.
C1_ExactlyVendorStepFires ==
    (filter = "main" /\ IdIn(KnownIds) /\ err = "none") =>
        /\ HasBody(VendorStep(jdata.id.v))
        /\ ~Skipped(VendorStep(jdata.id.v))
        /\ \A s \in WebSteps \ {VendorStep(jdata.id.v)} : Skipped(s)

\* C2: in the Wyze plug filter, for an individual plug and an action that is
\* on or off, the only plug step left to fire is the one of the requested
\* plug with the requested polarity; the three others are skipped.
C2_IndividualPlugExclusive ==
    (filter = "wyze" /\ IdIn(IndividualPlugs) /\ FoldedAction \in {On, Off}) =>
        PlugsFired = {PlugStep(jdata.id.v, FoldedAction)}

C2_Witness ==
    /\ filter = "wyze" /\ IdIs("plug_front_porch1") /\ jdata.action = Str(On)
    /\ err = "none"
    /\ PlugsFired = {"plugTurnOn1"}
    /\ Skipped("plugTurnOn2") /\ Skipped("plugTurnOff1") /\ Skipped("plugTurnOff2")

\* C3: in the Wyze plug filter, for the group id plug_front_porch_all and an
\* action that is on or off, both steps of the requested polarity fire and
\* both steps of the opposite polarity are skipped.
C3_GroupFiresBothPlugs ==
    (filter = "wyze" /\ IdIs("plug_front_porch_all") /\ FoldedAction \in {On, Off}) =>
        PlugsFired = (IF FoldedAction = On THEN OnGroup ELSE OffGroup)

C3_Witness ==
    /\ filter = "wyze" /\ IdIs("plug_front_porch_all") /\ jdata.action = Str(Off)
    /\ err = "none"
    /\ PlugsFired = OffGroup
    /\ Skipped("plugTurnOn1") /\ Skipped("plugTurnOn2")

\* C4: in the Wyze plug filter, for every id of its tables and an action that
\* is on or off, the group of plug steps opposite to the action is skipped in
\* full and the group of the action is not skipped in full, so that exactly
\* one of the two groups is entirely suppressed.
C4_OppositeGroupSuppressed ==
    (filter = "wyze" /\ IdIn(WyzeIds) /\ FoldedAction \in {On, Off}) =>
        LET same  == IF FoldedAction = On THEN OnGroup ELSE OffGroup
            other == IF FoldedAction = On THEN OffGroup ELSE OnGroup
        IN  /\ \A s \in other : Skipped(s)
            /\ \E s \in same : ~Skipped(s)

C4_Witness ==
    /\ filter = "wyze" /\ IdIs("plug_front_porch2") /\ jdata.action = Str(<<"O", "N">>)
    /\ err = "none"
    /\ Skipped("plugTurnOff1") /\ Skipped("plugTurnOff2")
    /\ ~Skipped("plugTurnOn2")

\* C5: at the end of every run of the Govee filter each of the three
\* web-request steps is either fired (headers and body set) or suppressed
\* (skip called), and not both.
C5_GoveeEveryStepAssigned ==
    filter = "govee" =>
        \A s \in WebSteps :
            (HasBody(s) /\ Called(s, "setAdditionalHeaders")) # Skipped(s)

\* C6: in the main and in the Govee filter, for every event whose id is not in
\* the filter's device map, every web-request step is skipped and none is
\* given a body.
C6_UnknownDeviceFailSafe ==
    /\ (filter = "main" /\ PropertyKey(jdata.id) \notin DOMAIN device_to_api) =>
           \A s \in WebSteps : Skipped(s) /\ ~HasBody(s)
    /\ (filter = "govee" /\ PropertyKey(jdata.id) \notin DOMAIN id_map) =>
           \A s \in WebSteps : Skipped(s) /\ ~HasBody(s)

\* C7: in the Wyze plug filter, for every event whose id is not a key of
\* on_skips and off_skips, all four plug steps are skipped.
C7_WyzeUnknownFailSafe ==
    (filter = "wyze" /\ PropertyKey(jdata.id) \notin (DOMAIN on_skips \cup DOMAIN off_skips)) =>
        PlugsFired = {}

\* C8: every run ends either with the script run to its end (the decision
\* completed for all steps) or with every step of the filter suppressed.
C8_CompleteOrFailSafe ==
    filter # "none" => (err = "none" \/ AllSuppressed)

\* C9: no error escapes a filter to the host: every run reaches the last
\* statement of the script.
C9_NoErrorEscapes ==
    filter # "none" => err = "none"

MalformedReported ==
    \E i \in 1..Len(debug_text) :
        debug_text[i] = <<Lit("Payload is missing \"id\" or \"action\".")>>

\* C10: an event whose id or action is absent or not a string is rejected by
\* the filter that receives it: every vendor-facing step is skipped and a
\* trace line reports the malformed payload.
C10_MalformedRejected ==
    (filter # "none" /\ (~IsString(jdata.id) \/ ~IsString(jdata.action))) =>
        AllSuppressed /\ MalformedReported

-----------------------------------------------------------------------------
(* Payloads and trace of a run *)

\* the value of the command a Govee request step was given
GoveeCmd(cs, step) == BodyOf(cs, step).v.cmd.v

\* the plug steps the log cs leaves to fire
PlugsFiredIn(cs) ==
    {s \in PlugSteps : ~\E i \in 1..Len(cs) : cs[i].step = s /\ cs[i].op = "skip"}

\* the brightness of the event as a number of eighths, when it has one
BrightnessIsNumber == parseFloat(jdata.brightness).t = "num8"

Brightness8 == parseFloat(jdata.brightness).v

Clamp8(b) == IF b > 8 THEN 8 ELSE IF b < 0 THEN 0 ELSE b

IsEmailBody(c) == c.step = "sendAnEmail" /\ c.op = "setBody"

\* the bodies given to the email step, in the order they were given
EmailBodies == SelectSeq(calls, IsEmailBody)

\* the debug flag of the filter that ran
DebugFlag ==
    CASE filter = "main"  -> main_debug
      [] filter = "govee" -> govee_debug
      [] filter = "wyze"  -> wyze_debug
      [] OTHER            -> FALSE

\* C11: for an action that after folding is neither on nor off, every vendor
\* adapter behaves as for off: the LIFX payload has power off, the Wyze
\* filter leaves the same plug steps to fire as for off, and the Govee power
\* command carries the value off.
C11_UnrecognizedActionIsOff ==
    (jdata.action.t = "str" /\ FoldedAction \notin {On, Off} /\ err = "none") =>
        /\ (filter = "main" /\ IdIs("bulb_front_porch")) =>
               BodyOf(calls, "makeWebRequest1").v.power = Lit("off")
        /\ (filter = "wyze" /\ IdIn(WyzeIds)) =>
               PlugsFired = PlugsFiredIn(WyzeFilter([jdata EXCEPT !.action = Str(Off)]).calls)
        /\ (filter = "govee" /\ IdIs("strip_staircase")) =>
               GoveeCmd(calls, "makeWebRequest1").value = Str(Off)

\* C12: in the Govee filter, for every event with a known id, the power
\* request is fired with turn = the folded action; the
\* color request is fired iff the event has a non-null color and is skipped
\* otherwise; the brightness request is fired iff the event has a non-null
\* brightness and is skipped otherwise; every body set carries a command.
C12_GoveeKnownRequests ==
    (filter = "govee" /\ IdIs("strip_staircase")) =>
        /\ Sends(calls, "makeWebRequest1")
        /\ GoveeCmd(calls, "makeWebRequest1") = [name |-> Lit("turn"), value |-> Str(FoldedAction)]
        /\ Sends(calls, "makeWebRequest2") <=>
               (hasOwnProperty(jdata.color) /\ jdata.color.t # "null")
        /\ Sends(calls, "makeWebRequest3") <=>
               (hasOwnProperty(jdata.brightness) /\ jdata.brightness.t # "null")
        /\ \A s \in WebSteps :
               /\ Sends(calls, s) \/ (Skipped(s) /\ ~HasBody(s))
               /\ Sends(calls, s) => GoveeCmd(calls, s).name \in
                      {Lit("turn"), Lit("color"), Lit("brightness")}

\* C13: on the Govee path (the Govee filter run on the body the main filter
\* set on its Govee request), the power request is fired with turn = the
\* folded action of the original event, the color request is fired iff the
\* original event had a color, the brightness request is fired iff the
\* original event had a numeric brightness, and the others are skipped; for
\* strip_staircase, on, brightness "0.5" and no color: turn = on, brightness
\* value 50, color skipped.
C13_GoveePathEndToEnd ==
    (filter = "govee" /\ upstream # <<>>) =>
        LET e == upstream[1]
        IN  /\ err = "none"
            /\ Sends(calls, "makeWebRequest1")
            /\ GoveeCmd(calls, "makeWebRequest1").value = Str(toLowerCase(e.action.v))
            /\ Sends(calls, "makeWebRequest2") <=> e.color.t = "str"
            /\ Sends(calls, "makeWebRequest3") <=> parseFloat(e.brightness).t = "num8"
            /\ \A s \in WebSteps : Sends(calls, s) \/ Skipped(s)
            /\ (e.action = Str(On) /\ e.brightness = Str(<<"0", ".", "5">>)
                    /\ e.color.t = "absent") =>
                   /\ GoveeCmd(calls, "makeWebRequest1").value = Str(On)
                   /\ GoveeCmd(calls, "makeWebRequest3").value = Num(50)
                   /\ Skipped("makeWebRequest2")

C13_Witness ==
    /\ filter = "govee" /\ upstream # <<>>
    /\ upstream[1].id = Key("strip_staircase")
    /\ upstream[1].action = Str(On)
    /\ upstream[1].brightness = Str(<<"0", ".", "5">>)
    /\ upstream[1].color.t = "absent"
    /\ GoveeCmd(calls, "makeWebRequest3").value = Num(50)
    /\ Skipped("makeWebRequest2")

\* the color string of the event denotes three integers
ColorIsTriple ==
    /\ jdata.color.t = "str"
    /\ Len(ParseColor(jdata.color.v).v) = 3
    /\ \A i \in 1..3 : ParseColor(jdata.color.v).v[i].t = "num"

\* C14: an event giving color as the string "r,g,b" and the same event giving
\* color as the array [r,g,b] produce the same color field in the vendor
\* payload, in the main filter (LIFX rgb string) and in the Govee filter
\* ({r,g,b} object).
C14_ColorFormatsAgree ==
    (jdata.action.t = "str" /\ ColorIsTriple /\ err = "none") =>
        LET asArray == [jdata EXCEPT !.color = ParseColor(jdata.color.v)]
        IN  /\ (filter = "main" /\ IdIs("bulb_front_porch")) =>
                   LET alt == MainFilter(asArray)
                   IN  /\ alt.err = "none"
                       /\ Sends(alt.calls, "makeWebRequest1")
                       /\ BodyOf(alt.calls, "makeWebRequest1").v.color
                              = BodyOf(calls, "makeWebRequest1").v.color
            /\ (filter = "govee" /\ IdIs("strip_staircase")) =>
                   LET alt == GoveeFilter(asArray)
                   IN  /\ alt.err = "none"
                       /\ Sends(alt.calls, "makeWebRequest2")
                       /\ GoveeCmd(alt.calls, "makeWebRequest2").value
                              = GoveeCmd(calls, "makeWebRequest2").value

\* C15 as stated: for every event the Govee filter processes with a numeric
\* brightness b, the value of the brightness command is the integer part of
\* 100 times b clamped to [0.0, 1.0], hence in 0..100.
C15_GoveeBrightnessClamped ==
    (filter = "govee" /\ IdIs("strip_staircase") /\ jdata.action.t = "str"
        /\ BrightnessIsNumber) =>
        /\ GoveeCmd(calls, "makeWebRequest3").value = Num((Clamp8(Brightness8) * 100) \div 8)
        /\ GoveeCmd(calls, "makeWebRequest3").value.v \in 0..100

\* the integer part (towards zero) of p eighths
IntegerPart8(p) == IF p >= 0 THEN p \div 8 ELSE 0 - ((0 - p) \div 8)

\* C15 as amended: the Govee filter does not clamp; the value of the
\* brightness command is the integer part of 100 times b.  When the event is
\* the one the main filter forwarded, b is the original brightness clamped to
\* [0.0, 1.0] and the value lies in 0..100: an original brightness of 1.5
\* yields 100, 1.0 yields 100 and 0.0 yields 0.
C15_GoveeBrightnessTruncated ==
    (filter = "govee" /\ IdIs("strip_staircase") /\ jdata.action.t = "str"
        /\ BrightnessIsNumber) =>
        LET value == GoveeCmd(calls, "makeWebRequest3").value
        IN  /\ value = Num(IntegerPart8(Brightness8 * 100))
            /\ upstream # <<>> =>
                   LET b == parseFloat(upstream[1].brightness)
                   IN  /\ b.t = "num8"
                       /\ value = Num((Clamp8(b.v) * 100) \div 8)
                       /\ value.v \in 0..100
                       /\ b.v = 12 => value = Num(100)
                       /\ b.v = 8 => value = Num(100)
                       /\ b.v = 0 => value = Num(0)

C15_Witness ==
    /\ filter = "govee" /\ upstream # <<>>
    /\ upstream[1].brightness = Num8(12)
    /\ jdata.brightness = Num8(8)
    /\ GoveeCmd(calls, "makeWebRequest3").value = Num(100)

\* the value the trace line with the given label shows
TraceValue(label) ==
    LET i == CHOOSE j \in 2..Len(debug_text) : debug_text[j][1] = Lit(label)
    IN  debug_text[i][2]

\* C16: in the main filter, for every event whose brightness parses to a
\* number b, the brightness of the canonical request (shown by the trace and
\* passed to the vendor handler) is 1.0 when b > 1.0, 0.0 when b < 0.0 and b
\* otherwise.
C16_BrightnessClamped ==
    (filter = "main" /\ err = "none" /\ BrightnessIsNumber) =>
        LET c == Num8(Clamp8(Brightness8))
        IN  /\ TraceValue("BRIGHTNESS: ") = c
            /\ c.v \in 0..8
            /\ IdIn(KnownIds) => BodyOf(calls, VendorStep(jdata.id.v)).v.brightness = c

C16_Witness ==
    /\ filter = "main" /\ err = "none" /\ IdIs("bulb_front_porch")
    /\ jdata.brightness = Num8(12)
    /\ BodyOf(calls, "makeWebRequest1").v.brightness = Num8(8)

\* C17: in the main filter every vendor handler assigns only the step of its
\* own vendor (and the debug email body): for a known id, every call of the
\* run is made on the vendor's step or on the email step.
C17_HandlerTouchesOwnStep ==
    (filter = "main" /\ err = "none" /\ IdIn(KnownIds)) =>
        /\ HasBody(VendorStep(jdata.id.v))
        /\ \A i \in 1..Len(calls) :
               calls[i].step \in {VendorStep(jdata.id.v), "sendAnEmail"}

C17_Witness ==
    /\ filter = "main" /\ err = "none" /\ IdIs("plug_front_porch1")
    /\ HasBody("makeWebRequest2")
    /\ ~Called("makeWebRequest1", "skip") /\ ~Called("makeWebRequest3", "skip")

\* C18: at the end of every run of a filter whose debug flag is false the
\* email step is skipped, and at the end of every run of a filter whose debug
\* flag is true the email step is fired with the accumulated trace as body.
C18_EmailFollowsDebugFlag ==
    filter # "none" =>
        IF DebugFlag
        THEN /\ ~Skipped("sendAnEmail")
             /\ HasBody("sendAnEmail")
             /\ BodyOf(calls, "sendAnEmail") = Arr(debug_text)
        ELSE Skipped("sendAnEmail")

\* C19: the debug text is copied into the email body exactly once
\* in a run, at its end; appending a trace line does not write the body.
C19_BodyWrittenOnce ==
    (filter # "none" /\ err = "none") => Len(EmailBodies) = 1

-----------------------------------------------------------------------------
(* The trace of an unknown id, independence of runs, case folding *)

\* whether a piece of a trace line shows the value x: the piece is x itself,
\* or the JSON text (written by the script or received) of a payload whose
\* id is x
PieceNames(piece, x) ==
    \/ piece.t = x.t /\ piece = x
    \/ piece.t \in {"json", "text"} /\ "id" \in DOMAIN piece.v
           /\ piece.v.id.t = x.t /\ piece.v.id = x

LineNames(line, x) == \E k \in 1..Len(line) : PieceNames(line[k], x)

\* the trace lines of the run that name the id of the event
LinesNamingId == {i \in 1..Len(debug_text) : LineNames(debug_text[i], jdata.id)}

\* the device map of the filter that ran
DeviceMapKeys ==
    CASE filter = "main"  -> DOMAIN device_to_api
      [] filter = "govee" -> DOMAIN id_map
      [] OTHER            -> DOMAIN on_skips

\* C21: in the main and in the Govee filter, for every event whose id is a
\* string not in the filter's device map, exactly one line of the debug trace
\* (of a run that reached the last statement of the script) names the id.
C21_OneLineNamesUnknownId ==
    (filter \in {"main", "govee"} /\ jdata.id.t = "key"
        /\ jdata.id.v \notin DeviceMapKeys /\ err = "none") =>
        Cardinality(LinesNamingId) = 1


\* two characters that are the same letter in either case
SameLetter(c, d) == c = d \/ {c, d} \in {{"o", "O"}, {"n", "N"}, {"f", "F"}}

\* two strings that differ at most in the case of their letters
SameLetters(a, b) == Len(a) = Len(b) /\ \A i \in 1..Len(a) : SameLetter(a[i], b[i])

IsVendorCall(c) == c.step # "sendAnEmail"

\* the calls of a log made on the vendor-facing steps: which steps are
\* skipped, and the url, method, headers and body given to the others
VendorCalls(cs) == SelectSeq(cs, IsVendorCall)

\* C23: in each of the three filters, the event of the run and every event
\* that differs from it only in the letter case of the action string lead to
\* the same calls on the vendor-facing steps (same steps skipped, same
\* payloads) and to the same error, if any.
C23_ActionCaseInsensitive ==
    (filter # "none" /\ jdata.action.t = "str") =>
        \A a \in Actions :
            (a.t = "str" /\ SameLetters(a.v, jdata.action.v)) =>
                LET other == RunScript(filter, [jdata EXCEPT !.action = a])
                IN  /\ VendorCalls(other.calls) = VendorCalls(calls)
                    /\ other.err = err

C23_Witness ==
    /\ filter = "wyze" /\ err = "none"
    /\ jdata.action = Str(<<"O", "N">>) /\ IdIs("plug_front_porch2")
    /\ PlugsFired = {"plugTurnOn2"}
    /\ VendorCalls(calls) = VendorCalls(WyzeFilter([jdata EXCEPT !.action = Str(On)]).calls)


-----------------------------------------------------------------------------
(* Colors, plug polarity, device tables *)

\* the integers the color strings of the events denote
ColorNumbers(s) ==
    CASE s = <<"1", "0", ",", "2", "0", ",", "3", "0">> -> <<10, 20, 30>>
      [] s = <<"3", "0", "0", ",", "-", "5", ",", "0">> -> <<300, -5, 0>>

\* the line of the trace that starts with the given label
TraceLine(label) ==
    debug_text[CHOOSE j \in 2..Len(debug_text) : debug_text[j][1] = Lit(label)]

\* C24: in the main filter, for every event whose color is a string of three
\* comma-separated integers, in 0..255 or not, the components of the
\* canonical request (shown by the trace) are those integers unchanged, and so
\* are the components of the LIFX "rgb:r,g,b" field and of the color of the
\* body forwarded to the Wyze plug and Govee applets.
C24_ColorNotClamped ==
    (filter = "main" /\ err = "none" /\ jdata.color.t = "str") =>
        LET n == ColorNumbers(jdata.color.v)
        IN  /\ TraceLine("COLOR: ") = <<Lit("COLOR: "), Num(n[1]), Lit("-"),
                                        Num(n[2]), Lit("-"), Num(n[3])>>
            /\ IdIs("bulb_front_porch") =>
                   BodyOf(calls, "makeWebRequest1").v.color =
                       Arr(<<Lit("rgb:"), Num(n[1]), Lit(","), Num(n[2]), Lit(","), Num(n[3])>>)
            /\ IdIn(WyzeIds \cup {"strip_staircase"}) =>
                   BodyOf(calls, VendorStep(jdata.id.v)).v.color =
                       Arr(<<Num(n[1]), Num(n[2]), Num(n[3])>>)

C24_Witness ==
    /\ filter = "main" /\ err = "none" /\ IdIs("bulb_front_porch")
    /\ jdata.color = Str(<<"3", "0", "0", ",", "-", "5", ",", "0">>)
    /\ BodyOf(calls, "makeWebRequest1").v.color =
           Arr(<<Lit("rgb:"), Num(300), Lit(","), Num(-5), Lit(","), Num(0)>>)


\* C25: in no run of the Wyze plug filter on an event with a string action,
\* whatever its id, are the turn-on step and the turn-off step of the same
\* plug both left to fire.
C25_NoPlugBothOnAndOff ==
    (filter = "wyze" /\ jdata.action.t = "str") =>
        /\ ~({"plugTurnOn1", "plugTurnOff1"} \subseteq PlugsFired)
        /\ ~({"plugTurnOn2", "plugTurnOff2"} \subseteq PlugsFired)


\* the ids the main filter routes to the handler h
RoutedTo(h) == {k \in DOMAIN device_to_api : device_to_api[k] = h}

UnknownGoveeReported ==
    \E i \in 1..Len(debug_text) : debug_text[i][1] = Lit("Unknown Govee device: \"")

\* C26: the device tables agree: the ids routed to the Wyze handler are keys
\* of on_skips and of off_skips, which have the same keys, and the ids routed
\* to the Govee handler are keys of id_map; so a run triggered by the request
\* the main filter forwarded never takes the unknown-device path: the Wyze
\* plug filter finds the id in its tables and runs to its end, and the Govee
\* filter fires its power request and reports no unknown device.
C26_TablesConsistent ==
    /\ RoutedTo("wyze_plug_handler") \subseteq (DOMAIN on_skips \cap DOMAIN off_skips)
    /\ DOMAIN on_skips = DOMAIN off_skips
    /\ RoutedTo("govee_strip_handler") \subseteq DOMAIN id_map
    /\ (filter = "wyze" /\ upstream # <<>>) =>
           /\ jdata.id.v \in DOMAIN on_skips
           /\ err = "none"
           /\ PlugsFired # PlugSteps
    /\ (filter = "govee" /\ upstream # <<>>) =>
           /\ jdata.id.v \in DOMAIN id_map
           /\ err = "none"
           /\ ~UnknownGoveeReported
           /\ Sends(calls, "makeWebRequest1")

C26_Witness ==
    /\ filter = "wyze" /\ upstream # <<>> /\ err = "none"
    /\ upstream[1].id = Key("plug_front_porch_all")
    /\ upstream[1].action = Str(<<"O", "N">>)
    /\ IdIs("plug_front_porch_all")
    /\ PlugsFired = OnGroup


-----------------------------------------------------------------------------
(* The LIFX request, the order of the calls *)

\* the number of calls of op made on a step
CallCount(step, op) ==
    Cardinality({i \in 1..Len(calls) : calls[i].step = step /\ calls[i].op = op})

\* the argument of the call of op made on a step
ArgOf(step, op) ==
    calls[CHOOSE i \in 1..Len(calls) : calls[i].step = step /\ calls[i].op = op].arg

\* C27: whenever the LIFX handler runs, the LIFX step is fired exactly once
\* (url, method and body each set once, skip not called) as a PUT to the url
\* with selector label:<id>; its payload has power "on" iff the folded action
\* is "on" and "off" otherwise; it has color "rgb:<r>,<g>,<b>" iff the
\* request has a color (the event gave one) and no color otherwise; it has
\* brightness iff the request has one (the event gave one), which is the
\* request's brightness as JSON writes it, the clamped number when the
\* event's brightness is a number.
C27_LifxRequest ==
    (filter = "main" /\ err = "none" /\ IdIs("bulb_front_porch")) =>
        LET body == BodyOf(calls, "makeWebRequest1").v
        IN  /\ CallCount("makeWebRequest1", "setBody") = 1
            /\ CallCount("makeWebRequest1", "setUrl") = 1
            /\ CallCount("makeWebRequest1", "setMethod") = 1
            /\ ~Skipped("makeWebRequest1")
            /\ ArgOf("makeWebRequest1", "setMethod") = Lit("PUT")
            /\ ArgOf("makeWebRequest1", "setUrl") =
                   Arr(<<Lit("https://api.lifx.com/v1/lights/"), Lit("label:"),
                         Key("bulb_front_porch"), Lit("/state")>>)
            /\ body.power = (IF FoldedAction = On THEN Lit("on") ELSE Lit("off"))
            /\ IF jdata.color.t = "str"
               THEN LET n == ColorNumbers(jdata.color.v)
                    IN  body.color = Arr(<<Lit("rgb:"), Num(n[1]), Lit(","),
                                           Num(n[2]), Lit(","), Num(n[3])>>)
               ELSE body.color = Absent
            /\ IF hasOwnProperty(jdata.brightness)
               THEN /\ body.brightness = JSONValue(TraceValue("BRIGHTNESS: "))
                    /\ BrightnessIsNumber => body.brightness = Num8(Clamp8(Brightness8))
               ELSE body.brightness = Absent

C27_Witness ==
    /\ filter = "main" /\ err = "none" /\ IdIs("bulb_front_porch")
    /\ jdata.action = Str(<<"O", "N">>)
    /\ jdata.color.t = "str" /\ jdata.brightness = Num8(12)
    /\ BodyOf(calls, "makeWebRequest1").v.power = Lit("on")
    /\ BodyOf(calls, "makeWebRequest1").v.brightness = Num8(8)
    /\ ArgOf("makeWebRequest1", "setMethod") = Lit("PUT")


Setters == {"setBody", "setUrl", "setMethod", "setAdditionalHeaders"}

\* C28: in every run, once skip has been called on a step no other call is
\* made on that step: no setter follows the skip and the skip is not
\* repeated; the skip of the email step, when the run makes it, is the last
\* call on the email step (and the last call of the run).
C28_NothingAfterSkip ==
    filter # "none" =>
        /\ \A i, j \in 1..Len(calls) :
               (i < j /\ calls[i].op = "skip" /\ calls[j].step = calls[i].step) =>
                   calls[j].op \notin Setters \cup {"skip"}
        /\ \A s \in VendorSteps \cup {"sendAnEmail"} : CallCount(s, "skip") <= 1
        /\ Skipped("sendAnEmail") => calls[Len(calls)] = Call("sendAnEmail", "skip", Absent)

C28_Witness ==
    /\ filter = "wyze" /\ err = "none" /\ IdIs("plug_front_porch1")
    /\ Len(EmailBodies) >= 4
    /\ Skipped("plugTurnOff1") /\ Skipped("plugTurnOff2") /\ Skipped("plugTurnOn2")
    /\ calls[Len(calls)] = Call("sendAnEmail", "skip", Absent)


-----------------------------------------------------------------------------
(* The dashboard buttons *)

\* the click handler of a button has run and is over: it returned, or the
\* promise it returned was settled
HandlerFinished(btn) == handler_at[btn] \in {"returned", "done", "rejected"}

\* C29: every ON or OFF button its click handler disabled is enabled again
\* when the handler is over, also when the light was not found in Lumen's
\* list and when the request to Lumen failed.
C29_ButtonReEnabled ==
    \A btn \in AllButtons : HandlerFinished(btn) => ~disabled[btn]

=============================================================================
